---- MODULE Spec2Model ----
(***************************************************************************)
(* A model of u8scan (include/u8scan/u8scan.h): the UTF-8 byte decoder,    *)
(* the BOM detector, the character range and iterator, the indexed access  *)
(* layer (length, at, empty, front, back) and the scan engine.             *)
(*                                                                         *)
(* A buffer is a sequence of bytes 0..255; the C++ index p of a buffer is  *)
(* the TLA+ index p + 1.  Bit operations are written arithmetically:       *)
(*   (b & 0xE0) == 0xC0   is   b \div 32 = 6                                *)
(*   (b & 0xF0) == 0xE0   is   b \div 16 = 14                               *)
(*   (b & 0xF8) == 0xF0   is   b \div 8  = 30                               *)
(*   (b & 0xC0) != 0x80   is   b \div 64 # 2                                *)
(*   b & ((1 << k) - 1)   is   b % 2^k                                      *)
(*   (c << 6) | (b & 0x3F) is  c * 64 + b % 64                              *)
(***************************************************************************)
EXTENDS Integers, Sequences, FiniteSets, TLC

VARIABLES input, range, it, call, ret, scan

vars == <<input, range, it, call, ret, scan>>

(***************************************************************************)
(* Bounds of the model and the byte values inputs are drawn from.          *)
(***************************************************************************)
\* longest buffer of the decoder specification
MaxDecodeLen == 3
\* longest buffer content of the access specification (after an optional BOM)
MaxLen == 3
\* most 3-byte characters in a buffer of the 3-byte family
MaxChars == 2
\* longest scanned content (after an optional BOM)
MaxScanLen == 3
\* longest scanned content (after an optional BOM) of the scan specification
\* that covers every entry point and configuration
MaxFullLen == 3
\* largest max_output_size configured
MaxOutput == 2
\* longest buffer walked by an iterator under test
MaxIterLen == 3
\* how many times begin() is taken on one range
MaxPasses == 2
\* longest buffer whose units are classified and case-converted
MaxCharsLen == 2
\* largest count given to copy_n
MaxCopyN == 4

\* bytes at the class boundaries of the decoder:
\* 0x7F | 0x80 0xBF | 0xC0 0xDF | 0xE0 | 0xF0 | 0xF8
DecodeBytes == {127, 128, 191, 192, 223, 224, 240, 248}
\* 'A' | 0xBB 0xBF | 0xC3 | 0xEF | 0xF0 | 0xFF
CoreBytes == {65, 187, 191, 195, 239, 240, 255}
\* 0x00 'A' 0x7F
AsciiBytes == {0, 65, 127}
\* lead and continuation bytes of the 3-byte family: 0xE4 0xEF | 0xBB 0xBF
Lead3Bytes == {228, 239}
ContBytes == {187, 191}
\* 'A' | 0xBF | 0xC3 | 0xEF | 0xFF
ScanBytes == {65, 191, 195, 239, 255}
\* 'A' | 0xBF | 0xC3 | 0xFF
FullBytes == {65, 191, 195, 255}
\* 'A' | 0xBF | 0xC3 | 0xE4
IterBytes == {65, 191, 195, 228}
\* '0' | 'A' | 'a' | 0x81 | 0xB0 | 0xC0 | 0xC1 | 0xC3 | 0xFF
CharsBytes == {48, 65, 97, 129, 176, 192, 193, 195, 255}

SeqsUpTo(S, n) == UNION {[1..k -> S] : k \in 0..n}

RECURSIVE Concat(_)
Concat(ss) == IF ss = <<>> THEN <<>> ELSE Head(ss) \o Concat(Tail(ss))

ThreeByteChars == {<<l, c1, c2>> : l \in Lead3Bytes, c1 \in ContBytes, c2 \in ContBytes}
\* buffers made of N >= 1 well-formed 3-byte characters
ThreeByteBuffers == {Concat(cs) : cs \in SeqsUpTo(ThreeByteChars, MaxChars) \ {<<>>}}

(***************************************************************************)
(* Bytes and CharInfo.                                                     *)
(***************************************************************************)
\* std::string::length()
Length(s) == Len(s)

\* static_cast<unsigned char>(input[pos]).  Every read of the code is inside
\* the buffer; a read at or past the end (reachable only by a changed decoder)
\* yields an unspecified byte, modelled as 0, and is visible in `reads`.
ByteAt(s, pos) == IF pos < Len(s) THEN s[pos + 1] ELSE 0

\* std::string::substr(pos, count) / append(str, pos, count): count is clamped
Substr(s, pos, count) ==
    LET last == IF pos + count > Len(s) THEN Len(s) ELSE pos + count
    IN  IF pos >= Len(s) THEN <<>> ELSE SubSeq(s, pos + 1, last)

\* CharInfo::CharInfo()
DefaultCharInfo ==
    [start_pos |-> 0, byte_count |-> 1, codepoint |-> 0, is_ascii |-> TRUE,
     is_valid_utf8 |-> TRUE, is_bom |-> FALSE]

\* (codepoint << 6) | (byte & 0x3F) in uint32_t.  The accumulator starts with
\* at most 5 bits and is shifted at most 3 times, so it stays below 2^23 and
\* the 32-bit shift never drops a bit.
Shift6Or(codepoint, byte) == (codepoint * 64) + (byte % 64)

(***************************************************************************)
(* details::extract_char_info.  A decoding is [info, reads]: the CharInfo  *)
(* the function returns and the set of buffer indices it has read.         *)
(***************************************************************************)
\* 10xxxxxx taken for a 2-byte lead as well
DeclaredCount_ContAsLead(first_byte) ==
    IF first_byte \div 32 = 6 \/ first_byte \div 64 = 2 THEN 2
    ELSE IF first_byte \div 16 = 14 THEN 3
    ELSE IF first_byte \div 8 = 30 THEN 4
    ELSE 0

\* the declared byte count of a lead byte >= 0x80; 0 stands for the final
\* else branch (not a recognised lead pattern)
DeclaredCount(first_byte) ==
    IF first_byte \div 32 = 6 THEN 2
    ELSE IF first_byte \div 16 = 14 THEN 3
    ELSE IF first_byte \div 8 = 30 THEN 4
    ELSE 0

\* a lead mask that always keeps the low 6 bits
LeadBits_SixBits(first_byte, byte_count) == first_byte % 64

\* first_byte & ((1 << (7 - byte_count)) - 1)
LeadBits(first_byte, byte_count) == first_byte % (2 ^ (7 - byte_count))

\* the validating loop without `byte_count = 1` on a failed continuation byte
RECURSIVE ValidateLoop_KeepCount(_, _, _, _, _)
ValidateLoop_KeepCount(s, pos, first_byte, i, d) ==
    IF i >= d.info.byte_count THEN d
    ELSE LET byte == ByteAt(s, pos + i)
             rd == d.reads \cup {pos + i}
         IN  IF byte \div 64 # 2
             THEN [info |-> [d.info EXCEPT !.is_valid_utf8 = FALSE,
                                           !.codepoint = first_byte],
                   reads |-> rd]
             ELSE ValidateLoop_KeepCount(s, pos, first_byte, i + 1,
                      [info |-> [d.info EXCEPT !.codepoint = Shift6Or(d.info.codepoint, byte)],
                       reads |-> rd])

\* the validating loop over the continuation bytes, from index i
RECURSIVE ValidateLoop(_, _, _, _, _)
ValidateLoop(s, pos, first_byte, i, d) ==
    IF i >= d.info.byte_count THEN d
    ELSE LET byte == ByteAt(s, pos + i)
             rd == d.reads \cup {pos + i}
         IN  IF byte \div 64 # 2
             THEN [info |-> [d.info EXCEPT !.is_valid_utf8 = FALSE,
                                           !.byte_count = 1,
                                           !.codepoint = first_byte],
                   reads |-> rd]
             ELSE ValidateLoop(s, pos, first_byte, i + 1,
                      [info |-> [d.info EXCEPT !.codepoint = Shift6Or(d.info.codepoint, byte)],
                       reads |-> rd])

\* the optimistic loop that ors in the whole continuation byte
RECURSIVE OptimisticLoop_NoMask(_, _, _, _)
OptimisticLoop_NoMask(s, pos, i, d) ==
    IF i >= d.info.byte_count THEN d
    ELSE LET byte == ByteAt(s, pos + i)
         IN  OptimisticLoop_NoMask(s, pos, i + 1,
                 [info |-> [d.info EXCEPT !.codepoint = (d.info.codepoint * 64) + byte],
                  reads |-> d.reads \cup {pos + i}])

\* the optimistic loop over the continuation bytes, from index i
RECURSIVE OptimisticLoop(_, _, _, _)
OptimisticLoop(s, pos, i, d) ==
    IF i >= d.info.byte_count THEN d
    ELSE LET byte == ByteAt(s, pos + i)
         IN  OptimisticLoop(s, pos, i + 1,
                 [info |-> [d.info EXCEPT !.codepoint = Shift6Or(d.info.codepoint, byte)],
                  reads |-> d.reads \cup {pos + i}])

\* ValidatedDecode without `byte_count = 1` in the truncated branch
ValidatedDecode_KeepCount(s, pos, first_byte, d) ==
    IF pos + d.info.byte_count > Length(s)
    THEN [d EXCEPT !.info.is_valid_utf8 = FALSE,
                   !.info.codepoint = first_byte]
    ELSE ValidateLoop(s, pos, first_byte, 1,
             [d EXCEPT !.info.codepoint = LeadBits(first_byte, d.info.byte_count)])

\* ValidatedDecode without the test `pos + byte_count > input.length()`
ValidatedDecode_NoBound(s, pos, first_byte, d) ==
    ValidateLoop(s, pos, first_byte, 1,
        [d EXCEPT !.info.codepoint = LeadBits(first_byte, d.info.byte_count)])

\* if (validate) { ... }: d holds the declared byte_count
ValidatedDecode(s, pos, first_byte, d) ==
    IF pos + d.info.byte_count > Length(s)
    THEN [d EXCEPT !.info.is_valid_utf8 = FALSE,
                   !.info.byte_count = 1,
                   !.info.codepoint = first_byte]
    ELSE ValidateLoop(s, pos, first_byte, 1,
             [d EXCEPT !.info.codepoint = LeadBits(first_byte, d.info.byte_count)])

\* OptimisticDecode without the test `pos + byte_count <= input.length()`
OptimisticDecode_NoBound(s, pos, first_byte, d) ==
    LET r == OptimisticLoop(s, pos, 1,
                 [d EXCEPT !.info.codepoint = LeadBits(first_byte, d.info.byte_count)])
    IN  [r EXCEPT !.info.is_valid_utf8 = TRUE]

\* else { ... }: no validation, the bound is still checked
OptimisticDecode(s, pos, first_byte, d) ==
    IF pos + d.info.byte_count <= Length(s)
    THEN LET r == OptimisticLoop(s, pos, 1,
                      [d EXCEPT !.info.codepoint = LeadBits(first_byte, d.info.byte_count)])
         IN  [r EXCEPT !.info.is_valid_utf8 = TRUE]
    ELSE [d EXCEPT !.info.is_valid_utf8 = FALSE,
                   !.info.byte_count = 1,
                   !.info.codepoint = first_byte]

\* the multi-byte branch (first_byte >= 0x80 in UTF-8 mode)
MultiByteDecode(s, pos, first_byte, validate, d) ==
    LET n == DeclaredCount(first_byte)
        d1 == [d EXCEPT !.info.is_ascii = FALSE]
    IN  IF n = 0
        THEN [d1 EXCEPT !.info.byte_count = 1,
                        !.info.is_valid_utf8 = FALSE,
                        !.info.codepoint = first_byte]
        ELSE IF validate
             THEN ValidatedDecode(s, pos, first_byte, [d1 EXCEPT !.info.byte_count = n])
             ELSE OptimisticDecode(s, pos, first_byte, [d1 EXCEPT !.info.byte_count = n])

\* the sentinel for pos >= input.length()
EndOfInput(d) == [d EXCEPT !.info.is_valid_utf8 = FALSE, !.info.byte_count = 1]

Decode(s, pos, utf8_mode, validate) ==
    LET d0 == [info |-> [DefaultCharInfo EXCEPT !.start_pos = pos, !.is_bom = FALSE],
               reads |-> {}]
    IN  IF pos >= Length(s) THEN EndOfInput(d0)
        ELSE LET first_byte == ByteAt(s, pos)
                 d1 == [d0 EXCEPT !.reads = {pos}]
             IN  IF ~utf8_mode \/ first_byte < 128
                 THEN [d1 EXCEPT !.info.is_ascii = TRUE,
                                 !.info.byte_count = 1,
                                 !.info.codepoint = first_byte,
                                 !.info.is_valid_utf8 = TRUE]
                 ELSE MultiByteDecode(s, pos, first_byte, validate, d1)

extract_char_info(s, pos, utf8_mode, validate) == Decode(s, pos, utf8_mode, validate).info

\* detect_bom comparing the first two bytes only
detect_bom_TwoBytes(s) ==
    IF Length(s) >= 3 /\ ByteAt(s, 0) = 239 /\ ByteAt(s, 1) = 187
    THEN [found |-> TRUE, size |-> 3]
    ELSE [found |-> FALSE, size |-> 0]

\* details::detect_bom
detect_bom(s) ==
    IF Length(s) >= 3 /\ ByteAt(s, 0) = 239 /\ ByteAt(s, 1) = 187 /\ ByteAt(s, 2) = 191
    THEN [found |-> TRUE, size |-> 3]
    ELSE [found |-> FALSE, size |-> 0]

\* bom_str()
bom_str == <<239, 187, 191>>

(***************************************************************************)
(* CharRange and CharIterator.  The buffer a range or an iterator borrows  *)
(* is passed to the operators that decode.                                 *)
(***************************************************************************)
\* CharRange::CharRange(str, utf8_mode, validate, skip_bom)
CharRange(s, utf8_mode, validate, skip_bom) ==
    [start_pos |-> IF skip_bom /\ Length(s) >= 3 /\ ByteAt(s, 0) = 239
                      /\ ByteAt(s, 1) = 187 /\ ByteAt(s, 2) = 191
                   THEN 3 ELSE 0,
     end_pos |-> Length(s), utf8_mode |-> utf8_mode, validate |-> validate]

\* CharRange::CharRange(str, start, end, utf8_mode, validate, skip_bom)
CharRangeBounds(s, start, end, utf8_mode, validate, skip_bom) ==
    [start_pos |-> IF skip_bom /\ start = 0 /\ Length(s) >= 3 /\ ByteAt(s, 0) = 239
                      /\ ByteAt(s, 1) = 187 /\ ByteAt(s, 2) = 191
                   THEN 3 ELSE start,
     end_pos |-> end, utf8_mode |-> utf8_mode, validate |-> validate]

\* make_char_range(str, start, end, utf8_mode, validate), skip_bom defaulted
make_char_range(s, start, end, utf8_mode, validate) ==
    CharRangeBounds(s, start, end, utf8_mode, validate, TRUE)

\* CharIterator::CharIterator(str, pos, utf8_mode, validate)
CharIterator(pos, utf8_mode, validate) ==
    [pos |-> pos, utf8_mode |-> utf8_mode, validate |-> validate,
     current_char |-> DefaultCharInfo, char_cached |-> FALSE]

\* CharRange::begin / CharRange::end
RangeBegin(r) == CharIterator(r.start_pos, r.utf8_mode, r.validate)
RangeEnd(r) == CharIterator(r.end_pos, r.utf8_mode, r.validate)

\* CharIterator::update_current_char, through get_char_info_impl
UpdateCurrentChar(s, i) ==
    [i EXCEPT !.current_char = extract_char_info(s, i.pos, i.utf8_mode, i.validate)]

\* CharIterator::operator*: the iterator afterwards; the value is its current_char
IterDeref(s, i) ==
    IF ~i.char_cached THEN [UpdateCurrentChar(s, i) EXCEPT !.char_cached = TRUE] ELSE i

\* operator++ without the update of an iterator that has nothing cached
IterIncr_Stale(s, i) ==
    [i EXCEPT !.pos = i.pos + i.current_char.byte_count, !.char_cached = FALSE]

\* operator++ without `char_cached_ = false`
IterIncr_KeepCache(s, i) ==
    LET j == IF ~i.char_cached THEN UpdateCurrentChar(s, i) ELSE i
    IN  [j EXCEPT !.pos = j.pos + j.current_char.byte_count]

\* CharIterator::operator++
IterIncr(s, i) ==
    LET j == IF ~i.char_cached THEN UpdateCurrentChar(s, i) ELSE i
    IN  [j EXCEPT !.pos = j.pos + j.current_char.byte_count, !.char_cached = FALSE]

\* CharIterator::operator== on two iterators of the same buffer
IterEq(a, b) == a.pos = b.pos

\* the value std::distance and back() are given when the loop `it != end` has
\* stepped over end: the positions only grow, the loop does not end
Diverges == -1

\* std::distance(first, last) of CharRange::size(), counted from n
RECURSIVE Distance(_, _, _, _)
Distance(s, first, last, n) ==
    IF IterEq(first, last) THEN n
    ELSE IF first.pos > last.pos THEN Diverges
    ELSE Distance(s, IterIncr(s, first), last, n + 1)

\* CharRange::size
RangeSize(s, r) == Distance(s, RangeBegin(r), RangeEnd(r), 0)

\* empty() with > for >=
RangeEmpty_Strict(r) == r.start_pos > r.end_pos

\* CharRange::empty
RangeEmpty(r) == r.start_pos >= r.end_pos

(***************************************************************************)
(* The indexed access layer.  A result is [outcome, info, count, flag,     *)
(* reads]; outcome is "value", "out_of_range" (std::out_of_range thrown)   *)
(* or "diverges".                                                          *)
(***************************************************************************)
NoResult ==
    [outcome |-> "none", info |-> DefaultCharInfo, count |-> 0, flag |-> FALSE, reads |-> {}]
ValueInfo(ci) == [NoResult EXCEPT !.outcome = "value", !.info = ci]
ValueCount(n) == [NoResult EXCEPT !.outcome = IF n = Diverges THEN "diverges" ELSE "value",
                                  !.count = n]
ValueFlag(b) == [NoResult EXCEPT !.outcome = "value", !.flag = b]
OutOfRange == [NoResult EXCEPT !.outcome = "out_of_range"]
Diverged == [NoResult EXCEPT !.outcome = "diverges"]

\* the range ending one byte before input.length()
AccessRange_EndMinusOne(s, utf8_mode, validate) ==
    make_char_range(s, IF detect_bom(s).found THEN 3 ELSE 0, Length(s) - 1, utf8_mode, validate)

\* BOMInfo bom_info = detect_bom(input); start_pos = bom_info.found ? 3 : 0;
\* range = make_char_range(input, start_pos, input.length(), utf8_mode, validate)
AccessRange(s, utf8_mode, validate) ==
    make_char_range(s, IF detect_bom(s).found THEN 3 ELSE 0, Length(s), utf8_mode, validate)

\* length(input, utf8_mode, validate)
length(s, utf8_mode, validate) == ValueCount(RangeSize(s, AccessRange(s, utf8_mode, validate)))

\* the loop of at() with i <= index
RECURSIVE AtLoop_OffByOne(_, _, _, _, _)
AtLoop_OffByOne(s, i, index, iter, end_it) ==
    IF i <= index /\ ~IterEq(iter, end_it)
    THEN AtLoop_OffByOne(s, i + 1, index, IterIncr(s, iter), end_it)
    ELSE iter

\* the loop of at(): for (i = 0; i < index && it != end_it; ++i, ++it)
RECURSIVE AtLoop(_, _, _, _, _)
AtLoop(s, i, index, iter, end_it) ==
    IF i < index /\ ~IterEq(iter, end_it)
    THEN AtLoop(s, i + 1, index, IterIncr(s, iter), end_it)
    ELSE iter

\* at(input, index, utf8_mode, validate)
at(s, index, utf8_mode, validate) ==
    LET r == AccessRange(s, utf8_mode, validate)
        end_it == RangeEnd(r)
        iter == AtLoop(s, 0, index, RangeBegin(r), end_it)
    IN  IF IterEq(iter, end_it) THEN OutOfRange
        ELSE ValueInfo(IterDeref(s, iter).current_char)

\* empty(input, utf8_mode, validate)
empty(s, utf8_mode, validate) == ValueFlag(RangeEmpty(AccessRange(s, utf8_mode, validate)))

\* front() without the test `it == range.end()`
front_NoCheck(s, utf8_mode, validate) ==
    ValueInfo(IterDeref(s, RangeBegin(AccessRange(s, utf8_mode, validate))).current_char)

\* front(input, utf8_mode, validate)
front(s, utf8_mode, validate) ==
    LET r == AccessRange(s, utf8_mode, validate)
        iter == RangeBegin(r)
    IN  IF IterEq(iter, RangeEnd(r)) THEN OutOfRange
        ELSE ValueInfo(IterDeref(s, iter).current_char)

\* the loop of back(): while (it != end_it) { last_char = *it; ++it; }
RECURSIVE BackLoop(_, _, _, _)
BackLoop(s, iter, end_it, last_char) ==
    IF IterEq(iter, end_it) THEN ValueInfo(last_char)
    ELSE IF iter.pos > end_it.pos THEN Diverged
    ELSE LET d == IterDeref(s, iter)
         IN  BackLoop(s, IterIncr(s, d), end_it, d.current_char)

\* back(input, utf8_mode, validate)
back(s, utf8_mode, validate) ==
    LET r == AccessRange(s, utf8_mode, validate)
        iter == RangeBegin(r)
        end_it == RangeEnd(r)
    IN  IF IterEq(iter, end_it) THEN OutOfRange
        ELSE BackLoop(s, iter, end_it, DefaultCharInfo)

(***************************************************************************)
(* The state.  input is the caller's buffer; call is the entry point the   *)
(* run has entered, with its arguments, and ret what it returned; range    *)
(* and it are the CharRange made and the CharIterator walking it; scan is  *)
(* the state of a scan in progress.                                        *)
(***************************************************************************)
NoCall == [op |-> "none", index |-> 0, utf8_mode |-> TRUE, validate |-> TRUE]
NoRange == [start_pos |-> 0, end_pos |-> 0, utf8_mode |-> TRUE, validate |-> TRUE]
NoScan ==
    [fn |-> "none", state |-> "Idle", pos |-> 0, result |-> <<>>, calls |-> <<>>,
     processor |-> "none", utf8_mode |-> TRUE, validate_utf8 |-> TRUE,
     bom_action |-> "IGNORE", bom_handler |-> FALSE, max_output_size |-> 0,
     bom_handler_calls |-> 0, char_signed |-> FALSE,
     bom_handler_arg |-> [found |-> FALSE, size |-> 0, action_taken |-> "IGNORE"]]

Idle ==
    /\ range = NoRange
    /\ it = CharIterator(0, TRUE, TRUE)
    /\ call = NoCall
    /\ ret = NoResult
    /\ scan = NoScan

(***************************************************************************)
(* Spec: the decoder.  A run decodes one character at any offset           *)
(* (get_char_info / extract_char_info), or makes a range over the whole    *)
(* buffer and walks it with operator++ as the loops `it != end` do.        *)
(***************************************************************************)
Init ==
    /\ input \in SeqsUpTo(DecodeBytes, MaxDecodeLen)
    /\ Idle

\* details::extract_char_info(input, pos, utf8_mode, validate)
ExtractCharInfo(pos, utf8_mode, validate) ==
    /\ call.op = "none"
    /\ call' = [op |-> "extract_char_info", index |-> pos,
                utf8_mode |-> utf8_mode, validate |-> validate]
    /\ ret' = LET d == Decode(input, pos, utf8_mode, validate)
              IN  [ValueInfo(d.info) EXCEPT !.reads = d.reads]
    /\ UNCHANGED <<input, range, it, scan>>

\* auto range = CharRange(input, utf8_mode, validate, skip_bom); auto it = range.begin()
MakeRange(utf8_mode, validate, skip_bom) ==
    /\ call.op = "none"
    /\ call' = [op |-> "make_char_range", index |-> 0,
                utf8_mode |-> utf8_mode, validate |-> validate]
    /\ range' = CharRange(input, utf8_mode, validate, skip_bom)
    /\ it' = RangeBegin(range')
    /\ UNCHANGED <<input, ret, scan>>

\* one turn of a loop `for (; it != range.end(); ++it)`.  An iterator that has
\* stepped over the buffer end is not followed further.
Increment ==
    /\ call.op = "make_char_range"
    /\ ~IterEq(it, RangeEnd(range))
    /\ it.pos <= Length(input)
    /\ it' = IterIncr(input, it)
    /\ UNCHANGED <<input, range, call, ret, scan>>

Next ==
    \/ \E pos \in 0..(Length(input) + 1), utf8_mode \in BOOLEAN, validate \in BOOLEAN :
           ExtractCharInfo(pos, utf8_mode, validate)
    \/ \E utf8_mode \in BOOLEAN, validate \in BOOLEAN, skip_bom \in BOOLEAN :
           MakeRange(utf8_mode, validate, skip_bom)
    \/ Increment

Spec == Init /\ [][Next]_vars

\* the loop keeps running until it ends
FairSpec == Spec /\ WF_vars(Increment)

(***************************************************************************)
(* Claims on the decoder.                                                  *)
(***************************************************************************)
\* a lead byte at pos that declares more bytes than the buffer holds from pos
Truncated(s, pos) ==
    /\ pos < Length(s)
    /\ ByteAt(s, pos) >= 128
    /\ DeclaredCount(ByteAt(s, pos)) > 0
    /\ pos + DeclaredCount(ByteAt(s, pos)) > Length(s)

\* C1: walking a buffer from its start by the decoded byte_count, in UTF-8
\* mode with validate on or off and in ASCII mode, every step advances by the
\* byte_count just decoded, which is >= 1, and never moves past the buffer
\* length; the walk ends, and it ends with the offset equal to the length.
C1_ForwardProgress ==
    /\ [][call.op = "make_char_range" =>
            /\ it'.current_char.byte_count >= 1
            /\ it'.pos = it.pos + it'.current_char.byte_count
            /\ it'.pos <= Length(input)]_vars
    /\ [](call.op = "make_char_range" => it.pos <= Length(input))
    /\ (call.op = "make_char_range" ~> it.pos = Length(input))

\* a walk without validation has reached the end of a buffer that ends in a
\* truncated 4-byte sequence
C1_Witness ==
    /\ call.op = "make_char_range"
    /\ range.utf8_mode /\ ~range.validate
    /\ input = <<127, 240, 191>>
    /\ Truncated(input, 1)
    /\ it.pos = Length(input)

\* C2: a unit returned by extract_char_info, for any buffer, offset and flags:
\* a valid unit lies inside the buffer, an invalid unit has byte_count 1, and
\* at an offset >= the buffer length the unit is invalid with byte_count 1.
C2_UnitInvariant ==
    call.op = "extract_char_info" =>
        /\ ret.info.start_pos = call.index
        /\ ret.info.is_valid_utf8 =>
               ret.info.start_pos + ret.info.byte_count <= Length(input)
        /\ ~ret.info.is_valid_utf8 => ret.info.byte_count = 1
        /\ call.index >= Length(input) =>
               ~ret.info.is_valid_utf8 /\ ret.info.byte_count = 1

\* a truncated 3-byte lead decoded with validation: invalid, one byte
C2_Witness ==
    /\ call.op = "extract_char_info"
    /\ call.utf8_mode /\ call.validate
    /\ Truncated(input, call.index)
    /\ ~ret.info.is_valid_utf8
    /\ ret.info.byte_count = 1

\* C3: decoding one character reads no buffer byte at an index >= the buffer
\* length, with validate on or off, at every offset and for every lead byte.
C3_NoReadPastEnd ==
    call.op = "extract_char_info" =>
        \A i \in ret.reads : 0 <= i /\ i < Length(input)

\* a lead byte declaring more bytes than remain, decoded without validation:
\* only the lead byte has been read
C3_Witness ==
    /\ call.op = "extract_char_info"
    /\ call.utf8_mode /\ ~call.validate
    /\ Truncated(input, call.index)
    /\ ret.reads = {call.index}

(***************************************************************************)
(* SpecAccess: the indexed access layer.  A run makes one call of length,  *)
(* at, empty, front or back on a buffer.  The buffers are every sequence   *)
(* of core bytes up to MaxLen, the same after a BOM, pure-ASCII buffers    *)
(* and buffers of well-formed 3-byte characters.                           *)
(***************************************************************************)
AccessBuffers ==
    LET S == SeqsUpTo(CoreBytes, MaxLen)
    IN  S \cup {bom_str \o s : s \in S} \cup SeqsUpTo(AsciiBytes, MaxLen + 1)
          \cup ThreeByteBuffers

InitAccess ==
    /\ input \in AccessBuffers
    /\ Idle

Called(op, index, utf8_mode, validate, result) ==
    /\ call.op = "none"
    /\ call' = [op |-> op, index |-> index, utf8_mode |-> utf8_mode, validate |-> validate]
    /\ ret' = result
    /\ UNCHANGED <<input, range, it, scan>>

CallLength(utf8_mode, validate) ==
    Called("length", 0, utf8_mode, validate, length(input, utf8_mode, validate))

CallAt(index, utf8_mode, validate) ==
    Called("at", index, utf8_mode, validate, at(input, index, utf8_mode, validate))

CallEmpty(utf8_mode, validate) ==
    Called("empty", 0, utf8_mode, validate, empty(input, utf8_mode, validate))

CallFront(utf8_mode, validate) ==
    Called("front", 0, utf8_mode, validate, front(input, utf8_mode, validate))

CallBack(utf8_mode, validate) ==
    Called("back", 0, utf8_mode, validate, back(input, utf8_mode, validate))

NextAccess ==
    \E utf8_mode \in BOOLEAN, validate \in BOOLEAN :
        \/ CallLength(utf8_mode, validate)
        \/ \E index \in 0..(Length(input) + 1) : CallAt(index, utf8_mode, validate)
        \/ CallEmpty(utf8_mode, validate)
        \/ CallFront(utf8_mode, validate)
        \/ CallBack(utf8_mode, validate)

SpecAccess == InitAccess /\ [][NextAccess]_vars

(***************************************************************************)
(* Claims on the access layer.                                             *)
(***************************************************************************)
\* the units of the traversal of s from offset pos: decode, advance by the
\* decoded byte_count, until the offset is at or past the end
RECURSIVE Units(_, _, _, _)
Units(s, pos, utf8_mode, validate) ==
    IF pos >= Length(s) THEN <<>>
    ELSE LET ci == extract_char_info(s, pos, utf8_mode, validate)
         IN  <<ci>> \o Units(s, pos + ci.byte_count, utf8_mode, validate)

HasBOM(s) == Len(s) >= 3 /\ SubSeq(s, 1, 3) = <<239, 187, 191>>

\* the units of the BOM-adjusted range of s
AdjustedUnits(s, utf8_mode, validate) ==
    Units(s, IF HasBOM(s) THEN 3 ELSE 0, utf8_mode, validate)

\* the fields BOM transparency compares
SameChar(a, b) ==
    /\ a.codepoint = b.codepoint
    /\ a.is_ascii = b.is_ascii
    /\ a.byte_count = b.byte_count

\* C5: for a buffer B that does not start with a BOM and B' = BOM + B, with
\* the same flags: length and empty agree, at(B', i) has the codepoint,
\* is_ascii and byte_count of at(B, i) for every i < length(B), and front and
\* back return the same codepoint (or fail alike).
C5_BomTransparency ==
    (call.op # "none" /\ ~HasBOM(input)) =>
        LET b2 == bom_str \o input
            u == call.utf8_mode
            v == call.validate
            r2 == CASE call.op = "length" -> length(b2, u, v)
                    [] call.op = "at" -> at(b2, call.index, u, v)
                    [] call.op = "empty" -> empty(b2, u, v)
                    [] call.op = "front" -> front(b2, u, v)
                    [] call.op = "back" -> back(b2, u, v)
        IN  /\ r2.outcome = ret.outcome
            /\ r2.count = ret.count
            /\ r2.flag = ret.flag
            /\ ret.outcome = "value" /\ call.op \in {"at", "front", "back"} =>
                   /\ SameChar(r2.info, ret.info)
                   /\ r2.info.start_pos = ret.info.start_pos + 3

\* at(B, 1) on 'A' 0xC3 0xBF returned the 2-byte character
C5_Witness ==
    /\ call.op = "at" /\ call.index = 1 /\ call.utf8_mode /\ call.validate
    /\ input = <<65, 195, 191>>
    /\ ret.outcome = "value"
    /\ ret.info.byte_count = 2

\* C6: at(buf, i) returns a unit when i < length(buf) and raises out_of_range
\* when i >= length(buf); the unit returned is the i-th unit of the traversal
\* from the BOM-adjusted start, never a default or an end-of-input sentinel.
C6_AtBounds ==
    call.op = "at" =>
        LET n == length(input, call.utf8_mode, call.validate).count
            us == AdjustedUnits(input, call.utf8_mode, call.validate)
        IN  /\ call.index < n => ret.outcome = "value"
            /\ call.index >= n => ret.outcome = "out_of_range"
            /\ ret.outcome = "value" =>
                   /\ call.index < Len(us)
                   /\ ret.info = us[call.index + 1]
                   /\ ret.info.start_pos < Length(input)

\* at(buf, length(buf)) raised on a buffer with a BOM and two characters
C6_Witness ==
    /\ call.op = "at"
    /\ HasBOM(input)
    /\ length(input, call.utf8_mode, call.validate).count = 2
    /\ call.index = 2
    /\ ret.outcome = "out_of_range"

\* C7: front, back and at(_, 0) raise out_of_range exactly when empty(buf) is
\* true; otherwise front returns the first and back the last unit of the
\* traversal of the BOM-adjusted range, and on a one-character buffer front,
\* back and at(0) return the same codepoint.
C7_FrontBack ==
    (call.op \in {"front", "back"} \/ (call.op = "at" /\ call.index = 0)) =>
        LET u == call.utf8_mode
            v == call.validate
            us == AdjustedUnits(input, u, v)
        IN  /\ ret.outcome \in {"value", "out_of_range"}
            /\ ret.outcome = "out_of_range" <=> empty(input, u, v).flag
            /\ ret.outcome = "value" =>
                   /\ us # <<>>
                   /\ call.op \in {"front", "at"} => ret.info = us[1]
                   /\ call.op = "back" => ret.info = us[Len(us)]
                   /\ Len(us) = 1 =>
                          /\ front(input, u, v).info.codepoint = ret.info.codepoint
                          /\ back(input, u, v).info.codepoint = ret.info.codepoint
                          /\ at(input, 0, u, v).info.codepoint = ret.info.codepoint

\* back() raised on the buffer that holds a BOM only
C7_Witness ==
    /\ call.op = "back"
    /\ input = bom_str
    /\ ret.outcome = "out_of_range"

\* C8: empty(buf) is true iff length(buf) is 0, for every flag combination;
\* a buffer of the 3 BOM bytes only has empty() true and length() 0.
C8_EmptyIffLengthZero ==
    /\ call.op = "empty" =>
           /\ ret.outcome = "value"
           /\ ret.flag <=> (length(input, call.utf8_mode, call.validate).count = 0)
           /\ input = bom_str => ret.flag
    /\ call.op = "length" =>
           /\ ret.outcome = "value"
           /\ (ret.count = 0) <=> empty(input, call.utf8_mode, call.validate).flag
           /\ input = bom_str => ret.count = 0

\* empty() returned true on the BOM-only buffer
C8_Witness ==
    /\ call.op = "empty"
    /\ input = bom_str
    /\ ret.flag

AllAscii(s) == \A k \in 1..Len(s) : s[k] < 128

\* C9: on a buffer whose bytes are all < 0x80, length is the number of bytes,
\* in UTF-8 mode and in ASCII mode, with validate on and off.
C9_AsciiLength ==
    (call.op = "length" /\ AllAscii(input)) =>
        /\ ret.outcome = "value"
        /\ ret.count = Len(input)

\* length() in UTF-8 mode returned 3 on 0x00 'A' 0x7F
C9_Witness ==
    /\ call.op = "length" /\ call.utf8_mode
    /\ input = <<0, 65, 127>>
    /\ ret.count = 3

\* s consists of well-formed 3-byte characters only
RECURSIVE AllThreeByte(_)
AllThreeByte(s) ==
    \/ s = <<>>
    \/ /\ Len(s) >= 3
       /\ s[1] \div 16 = 14 /\ s[2] \div 64 = 2 /\ s[3] \div 64 = 2
       /\ AllThreeByte(SubSeq(s, 4, Len(s)))

\* C10 as stated: on a buffer of exactly N >= 1 well-formed 3-byte characters
\* length(buf, true) is N and length(buf, false) is 3 * N.
C10_Original ==
    (call.op = "length" /\ input # <<>> /\ AllThreeByte(input)) =>
        ret.count = IF call.utf8_mode THEN Len(input) \div 3 ELSE Len(input)

\* C10, amended: the same, for a buffer that does not begin with the BOM
\* bytes EF BB BF; when it does, the BOM (itself a well-formed 3-byte
\* character) is excluded and the lengths are N - 1 and 3 * N - 3.
C10_ThreeByteLength ==
    (call.op = "length" /\ input # <<>> /\ AllThreeByte(input)) =>
        LET n == Len(input) \div 3
            skipped == IF HasBOM(input) THEN 1 ELSE 0
        IN  /\ ret.outcome = "value"
            /\ ret.count = IF call.utf8_mode THEN n - skipped ELSE 3 * (n - skipped)

\* length() in UTF-8 mode returned 2 on two 3-byte characters
C10_Witness ==
    /\ call.op = "length" /\ call.utf8_mode /\ call.validate
    /\ input = <<228, 187, 191, 239, 187, 191>>
    /\ ret.count = 2

(***************************************************************************)
(* SpecScan: the scan engine.  A run enters scan_utf8 or scan_string on a  *)
(* buffer with a processor and takes the turns of the scanning loop one by *)
(* one; each turn invokes the processor once.  scan.state is "Scanning"    *)
(* while the loop has a turn to take, "Stopped" after STOP_SCANNING and    *)
(* "Done" when the loop condition has failed; in the last two scan.result  *)
(* is the string returned.                                                 *)
(***************************************************************************)
\* ProcessResult(action, replacement)
ProcessResult(action, replacement) == [action |-> action, replacement |-> replacement]

Copy == ProcessResult("COPY_TO_OUTPUT", <<>>)
Drop == ProcessResult("IGNORE", <<>>)
Stop == ProcessResult("STOP_SCANNING", <<>>)
\* replacements: the empty string, "X" and "[X]"
Replacements == {<<>>, <<88>>, <<91, 88, 93>>}
Decisions == {Copy, Drop, Stop} \cup {ProcessResult("REPLACE", r) : r \in Replacements}

\* A processor decides on the class of the character it is given: ASCII,
\* valid multi-byte, or invalid.
CopyAll == [ascii |-> Copy, multi |-> Copy, invalid |-> Copy]
Processors ==
    {[ascii |-> d, multi |-> d, invalid |-> d] : d \in Decisions}
      \cup {[CopyAll EXCEPT !.ascii = d] : d \in Decisions}
      \cup {[CopyAll EXCEPT !.multi = d] : d \in Decisions}
      \cup {[CopyAll EXCEPT !.invalid = d] : d \in Decisions}

\* processor(char_info, input.data() + pos): the decision for a character
\* flagged ASCII with a codepoint below 0x80, for another valid character, and
\* for an invalid one
Invoke(processor, char_info) ==
    IF char_info.is_ascii /\ char_info.codepoint \in 0..127 THEN processor.ascii
    ELSE IF char_info.is_valid_utf8 THEN processor.multi
    ELSE processor.invalid

\* ScanConfig::ScanConfig()
DefaultConfig ==
    [utf8_mode |-> TRUE, bom_action |-> "IGNORE", bom_handler |-> FALSE,
     validate_utf8 |-> TRUE, max_output_size |-> 0]
ScanConfigs == {DefaultConfig}

\* what the configured bom_handler returns: "[BOM]"
BomHandlerResult == <<91, 66, 79, 77, 93>>

ScanBuffers ==
    LET S == SeqsUpTo(ScanBytes, MaxScanLen)
    IN  S \cup {bom_str \o s : s \in S}

InitScan ==
    /\ input \in ScanBuffers
    /\ Idle

\* the switch on proc_result.action with a single byte appended on COPY_TO_OUTPUT
Output_OneByte(result, s, pos, char_info, proc_result) ==
    CASE proc_result.action = "COPY_TO_OUTPUT" -> result \o Substr(s, pos, 1)
      [] proc_result.action = "REPLACE" -> result \o proc_result.replacement
      [] OTHER -> result

\* the switch on proc_result.action with a replacement cut to the length of
\* the character it replaces
Output_ReplaceClamped(result, s, pos, char_info, proc_result) ==
    CASE proc_result.action = "COPY_TO_OUTPUT" ->
             result \o Substr(s, pos, char_info.byte_count)
      [] proc_result.action = "REPLACE" ->
             result \o Substr(proc_result.replacement, 0, char_info.byte_count)
      [] OTHER -> result

\* the switch on proc_result.action: the output after the turn
Output(result, s, pos, char_info, proc_result) ==
    CASE proc_result.action = "COPY_TO_OUTPUT" ->
             result \o Substr(s, pos, char_info.byte_count)
      [] proc_result.action = "REPLACE" -> result \o proc_result.replacement
      [] OTHER -> result

\* while (pos < input.length()), with the cutoff of scan_string:
\* if (config.max_output_size > 0 && result.length() >= config.max_output_size) break;
LoopRuns(sc) ==
    /\ sc.pos < Length(input)
    /\ ~(sc.fn = "scan_string" /\ sc.max_output_size > 0
           /\ Len(sc.result) >= sc.max_output_size)

Entered(sc) == [sc EXCEPT !.state = IF LoopRuns(sc) THEN "Scanning" ELSE "Done"]

\* scan_utf8 that starts at offset 0 whatever the input starts with
ScanUtf8_KeepBom(processor) ==
    /\ scan.state = "Idle"
    /\ scan' = Entered([NoScan EXCEPT !.fn = "scan_utf8", !.processor = processor])
    /\ UNCHANGED <<input, range, it, call, ret>>

\* scan_utf8(input, processor) up to the loop
ScanUtf8(processor) ==
    /\ scan.state = "Idle"
    /\ scan' = Entered([NoScan EXCEPT !.fn = "scan_utf8",
                                      !.processor = processor,
                                      !.pos = IF detect_bom(input).found THEN 3 ELSE 0])
    /\ UNCHANGED <<input, range, it, call, ret>>

\* scan_string that routes a BOM to the handler whatever bom_action is
ScanString_AlwaysHandles(processor, config) ==
    /\ scan.state = "Idle"
    /\ LET bom_info == detect_bom(input)
           handled == bom_info.found /\ config.bom_handler
           prefix == IF ~bom_info.found THEN <<>>
                     ELSE IF config.bom_action = "COPY" THEN Substr(input, 0, 3)
                     ELSE IF handled THEN BomHandlerResult
                     ELSE <<>>
       IN  scan' = Entered([NoScan EXCEPT !.fn = "scan_string",
                                          !.processor = processor,
                                          !.utf8_mode = config.utf8_mode,
                                          !.validate_utf8 = config.validate_utf8,
                                          !.bom_action = config.bom_action,
                                          !.bom_handler = config.bom_handler,
                                          !.max_output_size = config.max_output_size,
                                          !.bom_handler_calls = IF handled THEN 1 ELSE 0,
                                          !.bom_handler_arg =
                                              IF handled
                                              THEN [found |-> bom_info.found,
                                                    size |-> bom_info.size,
                                                    action_taken |-> config.bom_action]
                                              ELSE NoScan.bom_handler_arg,
                                          !.result = prefix,
                                          !.pos = IF bom_info.found THEN 3 ELSE 0])
    /\ UNCHANGED <<input, range, it, call, ret>>

\* scan_string(input, processor, config) up to the loop
ScanString(processor, config) ==
    /\ scan.state = "Idle"
    /\ LET bom_info == detect_bom(input)
           handled == bom_info.found /\ config.bom_action = "CUSTOM" /\ config.bom_handler
           prefix == IF ~bom_info.found THEN <<>>
                     ELSE IF config.bom_action = "COPY" THEN Substr(input, 0, 3)
                     ELSE IF handled THEN BomHandlerResult
                     ELSE <<>>
       IN  scan' = Entered([NoScan EXCEPT !.fn = "scan_string",
                                          !.processor = processor,
                                          !.utf8_mode = config.utf8_mode,
                                          !.validate_utf8 = config.validate_utf8,
                                          !.bom_action = config.bom_action,
                                          !.bom_handler = config.bom_handler,
                                          !.max_output_size = config.max_output_size,
                                          !.bom_handler_calls = IF handled THEN 1 ELSE 0,
                                          !.bom_handler_arg =
                                              IF handled
                                              THEN [found |-> bom_info.found,
                                                    size |-> bom_info.size,
                                                    action_taken |-> config.bom_action]
                                              ELSE NoScan.bom_handler_arg,
                                          !.result = prefix,
                                          !.pos = IF bom_info.found THEN 3 ELSE 0])
    /\ UNCHANGED <<input, range, it, call, ret>>

\* a turn of the loop that appends the stopping character before it returns
ScanStep_StopCopies ==
    /\ scan.state = "Scanning"
    /\ scan.fn \in {"scan_utf8", "scan_string"}
    /\ LET char_info == extract_char_info(input, scan.pos, scan.utf8_mode, scan.validate_utf8)
           proc_result == Invoke(scan.processor, char_info)
           called == [scan EXCEPT !.calls = Append(scan.calls, char_info)]
       IN  scan' = IF proc_result.action = "STOP_SCANNING"
                   THEN [called EXCEPT
                            !.state = "Stopped",
                            !.result = scan.result \o Substr(input, scan.pos, char_info.byte_count)]
                   ELSE Entered([called EXCEPT
                            !.result = Output(scan.result, input, scan.pos, char_info, proc_result),
                            !.pos = scan.pos + char_info.byte_count])
    /\ UNCHANGED <<input, range, it, call, ret>>

\* one turn of the scanning loop of scan_utf8 / scan_string.  The safety check
\* `if (pos >= input.length()) break;` after the decoding repeats the loop
\* condition on an unchanged pos and never breaks.
ScanStep ==
    /\ scan.state = "Scanning"
    /\ scan.fn \in {"scan_utf8", "scan_string"}
    /\ LET char_info == extract_char_info(input, scan.pos, scan.utf8_mode, scan.validate_utf8)
           proc_result == Invoke(scan.processor, char_info)
           called == [scan EXCEPT !.calls = Append(scan.calls, char_info)]
       IN  scan' = IF proc_result.action = "STOP_SCANNING"
                   THEN [called EXCEPT !.state = "Stopped"]
                   ELSE Entered([called EXCEPT
                            !.result = Output(scan.result, input, scan.pos, char_info, proc_result),
                            !.pos = scan.pos + char_info.byte_count])
    /\ UNCHANGED <<input, range, it, call, ret>>

NextScan ==
    \/ \E processor \in Processors : ScanUtf8(processor)
    \/ \E processor \in Processors, config \in ScanConfigs : ScanString(processor, config)
    \/ ScanStep

SpecScan == InitScan /\ [][NextScan]_vars

(***************************************************************************)
(* Claims on the scan engine.                                              *)
(***************************************************************************)
\* the scan is scan_utf8, or scan_string under the default configuration
DefaultScan ==
    \/ scan.fn = "scan_utf8"
    \/ /\ scan.fn = "scan_string"
       /\ scan.utf8_mode /\ scan.validate_utf8
       /\ scan.bom_action = "IGNORE" /\ scan.max_output_size = 0

\* C4 as stated: scan_utf8, or scan_string under the default configuration,
\* with a callback that always returns Copy returns the input, byte for byte.
C4_Original ==
    (DefaultScan /\ scan.state = "Done" /\ scan.processor = CopyAll) =>
        scan.result = input

\* C4, amended: the output equals the input when the input does not start
\* with the BOM bytes EF BB BF, and the input without its first 3 bytes when
\* it does.
C4_CopyRoundTrip ==
    (DefaultScan /\ scan.state = "Done" /\ scan.processor = CopyAll) =>
        scan.result = IF HasBOM(input) THEN SubSeq(input, 4, Len(input)) ELSE input

\* an always-Copy scan of 0xC3 0xBF 0xFF (a 2-byte character and an invalid
\* byte) has returned its input
C4_Witness ==
    /\ DefaultScan /\ scan.state = "Done" /\ scan.processor = CopyAll
    /\ input = <<195, 191, 255>>
    /\ Len(scan.calls) = 2
    /\ scan.result = input

(***************************************************************************)
(* SpecScanFull: scan_utf8, scan_ascii and scan_string under every BOM     *)
(* action, mode and output limit, one turn of the scanning loop per step.  *)
(***************************************************************************)
\* static_cast<uint32_t>(input[pos]) of scan_ascii: input[pos] is a char.  Where
\* char is signed a byte >= 0x80 is negative and converts to 2^32 + (byte - 256);
\* that value is written byte - 256 here (it does not fit a 32-bit integer of
\* the model checker).  Where char is unsigned the value is the byte.
CharToU32(byte, char_signed) == IF char_signed /\ byte >= 128 THEN byte - 256 ELSE byte

\* configurations: every BOM action with every output limit under the default
\* mode, every mode under the default BOM action and limit, and a handler set
\* under the BOM actions that do not use it
FullConfigs ==
    {[DefaultConfig EXCEPT !.bom_action = a[1], !.bom_handler = a[2], !.max_output_size = m] :
         a \in {<<"IGNORE", FALSE>>, <<"COPY", FALSE>>, <<"CUSTOM", TRUE>>, <<"CUSTOM", FALSE>>},
         m \in 0..MaxOutput}
      \cup {[DefaultConfig EXCEPT !.utf8_mode = u, !.validate_utf8 = v] :
                u \in BOOLEAN, v \in BOOLEAN}
      \cup {[DefaultConfig EXCEPT !.bom_action = a, !.bom_handler = TRUE] :
                a \in {"IGNORE", "COPY"}}

ReplaceX == ProcessResult("REPLACE", <<88>>)
FullProcessors ==
    {[ascii |-> d, multi |-> d, invalid |-> d] : d \in Decisions}
      \cup {[CopyAll EXCEPT !.invalid = ReplaceX], [CopyAll EXCEPT !.ascii = Stop],
            [CopyAll EXCEPT !.multi = Stop], [CopyAll EXCEPT !.multi = Drop],
            [CopyAll EXCEPT !.invalid = Stop]}

FullBuffers ==
    LET S == SeqsUpTo(FullBytes, MaxFullLen)
    IN  S \cup {bom_str \o s : s \in S}

InitScanFull ==
    /\ input \in FullBuffers
    /\ Idle

\* scan_ascii that starts after a leading BOM
ScanAscii_SkipsBom(processor, char_signed) ==
    /\ scan.state = "Idle"
    /\ scan' = Entered([NoScan EXCEPT !.fn = "scan_ascii",
                                      !.processor = processor,
                                      !.char_signed = char_signed,
                                      !.pos = IF detect_bom(input).found THEN 3 ELSE 0])
    /\ UNCHANGED <<input, range, it, call, ret>>

\* scan_ascii(input, processor) up to the loop; char_signed is the build's char
ScanAscii(processor, char_signed) ==
    /\ scan.state = "Idle"
    /\ scan' = Entered([NoScan EXCEPT !.fn = "scan_ascii",
                                      !.processor = processor,
                                      !.char_signed = char_signed])
    /\ UNCHANGED <<input, range, it, call, ret>>

\* the CharInfo scan_ascii builds for the byte at pos
AsciiCharInfo(s, pos, char_signed) ==
    [DefaultCharInfo EXCEPT !.start_pos = pos,
                            !.byte_count = 1,
                            !.codepoint = CharToU32(ByteAt(s, pos), char_signed),
                            !.is_ascii = TRUE,
                            !.is_valid_utf8 = TRUE,
                            !.is_bom = FALSE]

\* the switch of scan_ascii: result += input[pos] on COPY_TO_OUTPUT
AsciiOutput(result, s, pos, proc_result) ==
    CASE proc_result.action = "COPY_TO_OUTPUT" -> Append(result, ByteAt(s, pos))
      [] proc_result.action = "REPLACE" -> result \o proc_result.replacement
      [] OTHER -> result

\* a turn of the loop of scan_ascii that steps over as many bytes as it wrote
\* for a replacement
ScanAsciiStep_SkipsReplaced ==
    /\ scan.state = "Scanning"
    /\ scan.fn = "scan_ascii"
    /\ LET char_info == AsciiCharInfo(input, scan.pos, scan.char_signed)
           proc_result == Invoke(scan.processor, char_info)
           called == [scan EXCEPT !.calls = Append(scan.calls, char_info)]
           step == IF proc_result.action = "REPLACE" /\ Len(proc_result.replacement) > 1
                   THEN Len(proc_result.replacement) ELSE 1
       IN  scan' = IF proc_result.action = "STOP_SCANNING"
                   THEN [called EXCEPT !.state = "Stopped"]
                   ELSE Entered([called EXCEPT
                            !.result = AsciiOutput(scan.result, input, scan.pos, proc_result),
                            !.pos = scan.pos + step])
    /\ UNCHANGED <<input, range, it, call, ret>>

\* one turn of the loop of scan_ascii: for (pos = 0; pos < input.length(); ++pos)
ScanAsciiStep ==
    /\ scan.state = "Scanning"
    /\ scan.fn = "scan_ascii"
    /\ LET char_info == AsciiCharInfo(input, scan.pos, scan.char_signed)
           proc_result == Invoke(scan.processor, char_info)
           called == [scan EXCEPT !.calls = Append(scan.calls, char_info)]
       IN  scan' = IF proc_result.action = "STOP_SCANNING"
                   THEN [called EXCEPT !.state = "Stopped"]
                   ELSE Entered([called EXCEPT
                            !.result = AsciiOutput(scan.result, input, scan.pos, proc_result),
                            !.pos = scan.pos + 1])
    /\ UNCHANGED <<input, range, it, call, ret>>

NextScanFull ==
    \/ \E processor \in FullProcessors : ScanUtf8(processor)
    \/ \E processor \in FullProcessors, char_signed \in BOOLEAN :
           ScanAscii(processor, char_signed)
    \/ \E processor \in FullProcessors, config \in FullConfigs :
           ScanString(processor, config)
    \/ ScanStep
    \/ ScanAsciiStep

SpecScanFull == InitScanFull /\ [][NextScanFull]_vars

(***************************************************************************)
(* Claims on the scan engine, every entry point and configuration.         *)
(***************************************************************************)
\* the character the loop of the running scan presents next
NextUnit ==
    IF scan.fn = "scan_ascii"
    THEN AsciiCharInfo(input, scan.pos, scan.char_signed)
    ELSE extract_char_info(input, scan.pos, scan.utf8_mode, scan.validate_utf8)

\* what a decision puts in the output for a character
Contribution(s, unit, decision) ==
    CASE decision.action = "COPY_TO_OUTPUT" -> Substr(s, unit.start_pos, unit.byte_count)
      [] decision.action = "REPLACE" -> decision.replacement
      [] OTHER -> <<>>

\* the contributions of the first n characters presented, in order
RECURSIVE Contributions(_, _, _, _)
Contributions(s, processor, calls, n) ==
    IF n = 0 THEN <<>>
    ELSE Contributions(s, processor, calls, n - 1)
           \o Contribution(s, calls[n], Invoke(processor, calls[n]))

\* what scan_string writes for a leading BOM before the first character
BomOutput ==
    IF scan.fn = "scan_string" /\ HasBOM(input)
    THEN IF scan.bom_action = "COPY" THEN <<239, 187, 191>>
         ELSE IF scan.bom_action = "CUSTOM" /\ scan.bom_handler THEN BomHandlerResult
         ELSE <<>>
    ELSE <<>>

\* the turn of a scan whose callback answers Stop: the scan is Stopped, the
\* output, the position and the BOM handling are as before the turn, and the
\* stopping character is the last one presented
C11_StopTurn ==
    (scan.state = "Scanning" /\ Invoke(scan.processor, NextUnit) = Stop) =>
        /\ scan'.state = "Stopped"
        /\ scan'.result = scan.result
        /\ scan'.pos = scan.pos
        /\ scan'.calls = Append(scan.calls, NextUnit)

\* a Stopped scan: Stop was the answer for the last character presented and
\* for no earlier one, and the output is what the earlier characters contributed
C11_Stopped ==
    scan.state = "Stopped" =>
        /\ Len(scan.calls) >= 1
        /\ Invoke(scan.processor, scan.calls[Len(scan.calls)]) = Stop
        /\ \A i \in 1..(Len(scan.calls) - 1) : Invoke(scan.processor, scan.calls[i]) # Stop
        /\ scan.calls[Len(scan.calls)].start_pos = scan.pos
        /\ scan.result = BomOutput \o Contributions(input, scan.processor, scan.calls,
                                                   Len(scan.calls) - 1)

\* C11: in scan_utf8, scan_ascii and scan_string a Stop answer ends the scan in
\* the terminal Stopped state with exactly the output accumulated from the
\* earlier characters; the stopping character contributes nothing, and no step
\* leaves Stopped (no further callback, no further decoding).
C11_StopIsTerminal ==
    /\ [][C11_StopTurn /\ scan.state # "Stopped"]_vars
    /\ []C11_Stopped

\* scan_utf8 stopped at its second character with output and with bytes left
C11_Witness ==
    /\ scan.fn = "scan_utf8" /\ scan.state = "Stopped"
    /\ Len(scan.calls) = 2
    /\ scan.result = <<195, 191>>
    /\ scan.pos = 2 /\ Length(input) = 3

\* C12: the output of a scan that has not received Stop is the in-order
\* concatenation of one contribution per character presented: its bytes
\* buffer[start_pos, start_pos + byte_count) for Copy, the replacement for
\* Replace, nothing for Drop; scan_utf8 and scan_ascii append nothing else, and
\* scan_string only what it wrote for a leading BOM before the first character.
C12_OutputIsConcatenation ==
    scan.state \in {"Scanning", "Done"} =>
        scan.result = BomOutput \o Contributions(input, scan.processor, scan.calls,
                                                 Len(scan.calls))

\* scan_utf8 has replaced each of two characters by "[X]", longer than either
C12_Witness ==
    /\ scan.fn = "scan_utf8" /\ scan.state = "Done"
    /\ Len(scan.calls) = 2
    /\ scan.result = <<91, 88, 93, 91, 88, 93>>

\* C13: scan_utf8, and scan_string with bom_action IGNORE, on a buffer that
\* starts with EF BB BF present no character that starts before offset 3, the
\* first one presented starts at offset 3, no BOM byte reaches the output, and
\* an always-Copy scan returns the buffer without its first 3 bytes.
C13_BomConsumed ==
    (/\ HasBOM(input)
     /\ \/ scan.fn = "scan_utf8"
        \/ scan.fn = "scan_string" /\ scan.bom_action = "IGNORE") =>
        /\ scan.pos >= 3
        /\ \A i \in 1..Len(scan.calls) : scan.calls[i].start_pos >= 3
        /\ Len(scan.calls) >= 1 => scan.calls[1].start_pos = 3
        /\ scan.state # "Stopped" =>
               scan.result = Contributions(input, scan.processor, scan.calls, Len(scan.calls))
        /\ (scan.state = "Done" /\ scan.processor = CopyAll /\ scan.max_output_size = 0) =>
               scan.result = SubSeq(input, 4, Len(input))

\* an always-Copy scan_utf8 of BOM + 'A' 0xC3 0xBF has returned 'A' 0xC3 0xBF
C13_Witness ==
    /\ scan.fn = "scan_utf8" /\ scan.state = "Done" /\ scan.processor = CopyAll
    /\ input = <<239, 187, 191, 65, 195, 191>>
    /\ scan.calls[1].start_pos = 3
    /\ scan.result = <<65, 195, 191>>

\* C14 as stated: the output of scan_string with max_output_size = M > 0 is
\* never longer than M.
C14_Original ==
    (scan.fn = "scan_string" /\ scan.max_output_size > 0) =>
        Len(scan.result) <= scan.max_output_size

\* the characters of the whole buffer as the running scan decodes them: one
\* per byte from offset 0 in scan_ascii, the units after a leading BOM otherwise
FullTraversal ==
    IF scan.fn = "scan_ascii"
    THEN [i \in 1..Len(input) |-> AsciiCharInfo(input, i - 1, scan.char_signed)]
    ELSE AdjustedUnits(input, scan.utf8_mode, scan.validate_utf8)

NeverStops(processor) ==
    processor.ascii # Stop /\ processor.multi # Stop /\ processor.invalid # Stop

IsPrefix(a, b) == Len(a) <= Len(b) /\ a = SubSeq(b, 1, Len(a))

\* each character presented starts where the previous one ended, every one
\* has at least one byte, and there are at most as many as the buffer has bytes
Chained ==
    /\ \A i \in 1..Len(scan.calls) : scan.calls[i].byte_count >= 1
    /\ \A i \in 1..(Len(scan.calls) - 1) :
           scan.calls[i + 1].start_pos = scan.calls[i].start_pos + scan.calls[i].byte_count
    /\ Len(scan.calls) <= Len(input)

\* C19 as stated: the characters presented are chained, and a finished scan
\* whose callback never returns Stop has been presented the traversal of the
\* whole buffer, the same for every such callback.
C19_Original ==
    /\ Chained
    /\ (scan.state = "Done" /\ NeverStops(scan.processor)) => scan.calls = FullTraversal

\* C19, amended: the characters presented are chained and always a prefix of
\* the traversal of the whole buffer, whatever the decisions; a finished scan
\* whose callback never returns Stop has been presented the whole traversal in
\* scan_utf8, in scan_ascii and in scan_string with max_output_size == 0, and
\* with max_output_size > 0 it has either been presented the whole traversal
\* or its output has reached max_output_size.
C19_TraversalIndependent ==
    /\ Chained
    /\ scan.fn # "none" => IsPrefix(scan.calls, FullTraversal)
    /\ (scan.state = "Done" /\ NeverStops(scan.processor)) =>
           \/ scan.calls = FullTraversal
           \/ /\ scan.fn = "scan_string" /\ scan.max_output_size > 0
              /\ Len(scan.result) >= scan.max_output_size

\* scan_string without output limit has dropped a 2-byte character and copied
\* the byte after it: both were presented
C19_Witness ==
    /\ scan.fn = "scan_string" /\ scan.max_output_size = 0 /\ scan.state = "Done"
    /\ scan.processor = [CopyAll EXCEPT !.multi = Drop]
    /\ input = <<195, 191, 65>>
    /\ scan.calls = FullTraversal /\ Len(scan.calls) = 2
    /\ scan.calls[2].start_pos = 2
    /\ scan.result = <<65>>

(***************************************************************************)
(* Malformed sequences under validation (SpecScan: UTF-8 mode, validating). *)
(***************************************************************************)
\* the length a lead byte announces: 110xxxxx 2, 1110xxxx 3, 11110xxx 4, and
\* 0 for a byte that is no lead (10xxxxxx, 11111xxx)
Announced(b) ==
    IF b \in 192..223 THEN 2
    ELSE IF b \in 224..239 THEN 3
    ELSE IF b \in 240..247 THEN 4
    ELSE 0

\* the byte at pos is >= 0x80 and is no lead, or announces more bytes than are
\* left, or is followed within the announced length by a byte that is not 10xxxxxx
Malformed(s, pos) ==
    LET b == ByteAt(s, pos)
    IN  /\ b >= 128
        /\ \/ Announced(b) = 0
           \/ pos + Announced(b) > Length(s)
           \/ \E j \in 1..(Announced(b) - 1) : ByteAt(s, pos + j) \notin 128..191

\* offset of the first character the scan presents
ScanStart == IF HasBOM(input) THEN 3 ELSE 0

\* the character presented at offset p was invalid
InvalidAt(p) == \E i \in 1..Len(scan.calls) :
                    scan.calls[i].start_pos = p /\ ~scan.calls[i].is_valid_utf8

\* C20: with validation on in UTF-8 mode a malformed sequence is presented as
\* one invalid 1-byte unit whose codepoint is the raw byte, and the byte after
\* it starts the next unit; a finished scan without Stop has presented every
\* byte < 0x80 as its own valid 1-byte ASCII unit; and a scan that replaces
\* invalid units by "X" and copies the others returns the buffer with exactly
\* the bytes of the invalid units turned into "X".
C20_NoSwallowing ==
    /\ \A i \in 1..Len(scan.calls) :
           LET u == scan.calls[i]
           IN  /\ Malformed(input, u.start_pos) <=> ~u.is_valid_utf8
               /\ ~u.is_valid_utf8 =>
                      /\ u.byte_count = 1
                      /\ u.codepoint = ByteAt(input, u.start_pos)
                      /\ i < Len(scan.calls) => scan.calls[i + 1].start_pos = u.start_pos + 1
               /\ \A j \in 1..(u.byte_count - 1) : ByteAt(input, u.start_pos + j) >= 128
    /\ (scan.state = "Done" /\ NeverStops(scan.processor)) =>
           \A p \in ScanStart..(Length(input) - 1) :
               ByteAt(input, p) < 128 =>
                   \E i \in 1..Len(scan.calls) :
                       scan.calls[i] = [start_pos |-> p, byte_count |-> 1,
                                        codepoint |-> ByteAt(input, p), is_ascii |-> TRUE,
                                        is_valid_utf8 |-> TRUE, is_bom |-> FALSE]
    /\ (scan.state = "Done" /\ scan.processor = [CopyAll EXCEPT !.invalid = ReplaceX]) =>
           /\ Len(scan.result) = Length(input) - ScanStart
           /\ \A k \in 1..Len(scan.result) :
                  scan.result[k] = IF InvalidAt(ScanStart + k - 1) THEN 88
                                   ELSE ByteAt(input, ScanStart + k - 1)

\* 0xEF 0xBF 'A': the 3-byte lead fails on its second continuation byte; the
\* scan replacing invalid units by "X" has presented three 1-byte units and
\* returned "XXA"
C20_Witness ==
    /\ scan.state = "Done" /\ scan.processor = [CopyAll EXCEPT !.invalid = ReplaceX]
    /\ input = <<239, 191, 65>>
    /\ Len(scan.calls) = 3
    /\ ~scan.calls[1].is_valid_utf8 /\ ~scan.calls[2].is_valid_utf8
    /\ scan.calls[3].is_ascii /\ scan.calls[3].codepoint = 65
    /\ scan.result = <<88, 88, 65>>

(***************************************************************************)
(* SpecIter: a range made with explicit bounds and one iterator on it,     *)
(* dereferenced and advanced in any order, begin() taken again.            *)
(***************************************************************************)
IterBuffers ==
    LET S == SeqsUpTo(IterBytes, MaxIterLen)
    IN  S \cup {bom_str, bom_str \o <<65>>}

InitIter ==
    /\ input \in IterBuffers
    /\ Idle

IterOps == {"begin", "deref", "advance", "empty", "size"}

\* auto range = make_char_range(input, start, end, utf8_mode, validate);
\* auto it = range.begin();
MakeRangeBounds(start, end, utf8_mode, validate) ==
    /\ call.op = "none"
    /\ range' = make_char_range(input, start, end, utf8_mode, validate)
    /\ it' = RangeBegin(range')
    /\ call' = [op |-> "begin", index |-> 0, utf8_mode |-> utf8_mode, validate |-> validate,
                start |-> start, end |-> end, pass |-> 1]
    /\ ret' = NoResult
    /\ UNCHANGED <<input, scan>>

\* *it: index counts the ++ since begin()
Dereference ==
    /\ call.op \in IterOps
    /\ it' = IterDeref(input, it)
    /\ ret' = ValueInfo(it'.current_char)
    /\ call' = [call EXCEPT !.op = "deref"]
    /\ UNCHANGED <<input, range, scan>>

\* ++it in a loop `it != range.end()`.  An iterator that has stepped over the
\* buffer end is not followed further.
Advance ==
    /\ call.op \in IterOps
    /\ ~IterEq(it, RangeEnd(range))
    /\ it.pos <= Length(input)
    /\ it' = IterIncr(input, it)
    /\ ret' = NoResult
    /\ call' = [call EXCEPT !.op = "advance", !.index = call.index + 1]
    /\ UNCHANGED <<input, range, scan>>

\* it = range.begin(), once more
BeginAgain ==
    /\ call.op \in IterOps
    /\ call.pass < MaxPasses
    /\ it' = RangeBegin(range)
    /\ ret' = NoResult
    /\ call' = [call EXCEPT !.op = "begin", !.index = 0, !.pass = call.pass + 1]
    /\ UNCHANGED <<input, range, scan>>

\* range.empty(), asked of the range as made
CallRangeEmpty ==
    /\ call.op \in {"begin", "empty", "size"}
    /\ ret' = ValueFlag(RangeEmpty(range))
    /\ call' = [call EXCEPT !.op = "empty"]
    /\ UNCHANGED <<input, range, it, scan>>

\* range.size(), asked of the range as made
CallRangeSize ==
    /\ call.op \in {"begin", "empty", "size"}
    /\ ret' = ValueCount(RangeSize(input, range))
    /\ call' = [call EXCEPT !.op = "size"]
    /\ UNCHANGED <<input, range, it, scan>>

NextIter ==
    \/ \E start \in 0..Length(input), end \in 0..Length(input),
          utf8_mode \in BOOLEAN, validate \in BOOLEAN :
           MakeRangeBounds(start, end, utf8_mode, validate)
    \/ Dereference
    \/ Advance
    \/ BeginAgain
    \/ CallRangeEmpty
    \/ CallRangeSize

SpecIter == InitIter /\ [][NextIter]_vars

(***************************************************************************)
(* Claims on the iterator cache and on ranges with explicit bounds.        *)
(***************************************************************************)
\* an iterator advanced k times and never dereferenced
RECURSIVE Advanced(_, _, _)
Advanced(s, i, k) == IF k = 0 THEN i ELSE Advanced(s, IterIncr(s, i), k - 1)

\* the never-dereferenced iterator that took as many ++ from begin() as `it`
Twin == Advanced(input, RangeBegin(range), call.index)

\* C15: whatever was dereferenced before, the iterator is where an iterator
\* that was never dereferenced is after the same number of ++; it compares
\* equal to an iterator exactly when the byte positions agree, cached or not on
\* either side; a dereference returns the decoding of the buffer at its
\* position under the range's mode flags; and the unit seen after k advances
\* is the same on every pass from begin().
C15_CacheTransparent ==
    call.op \in IterOps =>
        /\ it.pos = Twin.pos
        /\ IterEq(it, Twin) /\ IterEq(IterDeref(input, it), Twin)
        /\ IterEq(it, IterDeref(input, Twin))
        /\ \A p \in 0..(Length(input) + 1) :
               LET other == CharIterator(p, range.utf8_mode, range.validate)
               IN  /\ IterEq(it, other) <=> it.pos = p
                   /\ IterEq(it, IterDeref(input, other)) <=> it.pos = p
                   /\ IterEq(other, it) <=> it.pos = p
        /\ call.op = "deref" =>
               /\ ret.info = extract_char_info(input, it.pos, range.utf8_mode, range.validate)
               /\ ret.info = IterDeref(input, Twin).current_char
               /\ ret.info.start_pos = it.pos

\* on the second pass from begin(), after a ++ over a 2-byte character, the
\* iterator has been dereferenced at offset 2 and holds that unit cached
C15_Witness ==
    /\ call.op = "deref" /\ call.pass = 2 /\ call.index = 1
    /\ input = <<195, 191, 65>> /\ range.utf8_mode /\ range.start_pos = 0
    /\ it.pos = 2 /\ it.char_cached
    /\ ret.info.codepoint = 65

\* C16 as stated: a range made with bounds start >= end is empty: empty()
\* returns true, begin() equals end() so that the traversal ends having
\* visited no character, and size() returns 0.
C16_Original ==
    (call.op \in IterOps /\ call.start >= call.end) =>
        /\ call.op = "empty" => ret.flag
        /\ IterEq(RangeBegin(range), RangeEnd(range))
        /\ call.index = 0
        /\ call.op = "size" => (ret.outcome = "value" /\ ret.count = 0)

(***************************************************************************)
(* SpecChars: the ASCII predicates and the case conversions applied to the *)
(* units of a traversal in UTF-8 mode.                                     *)
(***************************************************************************)
\* predicates::in_range(min_cp, max_cp) applied to info
in_range(min_cp, max_cp, info) == info.codepoint >= min_cp /\ info.codepoint <= max_cp

\* predicates::is_digit_ascii() applied to info: in_range('0', '9')
is_digit_ascii(info) == in_range(48, 57, info)

\* predicates::is_alpha_ascii() applied to info
is_alpha_ascii(info) ==
    \/ info.codepoint >= 65 /\ info.codepoint <= 90
    \/ info.codepoint >= 97 /\ info.codepoint <= 122

\* predicates::is_alphanum_ascii() applied to info
is_alphanum_ascii(info) ==
    \/ info.codepoint >= 65 /\ info.codepoint <= 90
    \/ info.codepoint >= 97 /\ info.codepoint <= 122
    \/ info.codepoint >= 48 /\ info.codepoint <= 57

\* predicates::is_lowercase_ascii() applied to info
is_lowercase_ascii(info) == info.codepoint >= 97 /\ info.codepoint <= 122

\* predicates::is_uppercase_ascii() applied to info
is_uppercase_ascii(info) == info.codepoint >= 65 /\ info.codepoint <= 90

\* predicates::is_whitespace_ascii() applied to info: ' ', '\t', '\n', '\r'
is_whitespace_ascii(info) == info.codepoint \in {32, 9, 10, 13}

\* to_lower_ascii(info)
to_lower_ascii(info) ==
    IF info.is_ascii /\ info.codepoint >= 65 /\ info.codepoint <= 90
    THEN info.codepoint + 32
    ELSE info.codepoint

\* to_upper_ascii(info)
to_upper_ascii(info) ==
    IF info.is_ascii /\ info.codepoint >= 97 /\ info.codepoint <= 122
    THEN info.codepoint - 32
    ELSE info.codepoint

\* to_string(info): the codepoint encoded again; nothing from 0x110000 on
to_string(info) ==
    LET cp == info.codepoint
    IN  IF cp < 128 THEN <<cp>>
        ELSE IF cp < 2048 THEN <<192 + (cp \div 64), 128 + (cp % 64)>>
        ELSE IF cp < 65536
             THEN <<224 + (cp \div 4096), 128 + ((cp \div 64) % 64), 128 + (cp % 64)>>
        ELSE IF cp < 1114112
             THEN <<240 + (cp \div 262144), 128 + ((cp \div 4096) % 64),
                    128 + ((cp \div 64) % 64), 128 + (cp % 64)>>
        ELSE <<>>

\* to_lower_ascii_str(info); static_cast<char> keeps the low 8 bits
to_lower_ascii_str(info) ==
    IF info.is_ascii THEN <<to_lower_ascii(info) % 256>> ELSE to_string(info)

\* to_upper_ascii_str(info)
to_upper_ascii_str(info) ==
    IF info.is_ascii THEN <<to_upper_ascii(info) % 256>> ELSE to_string(info)

\* short buffers of every kind of byte, the 4-byte encodings of U+1F600 and of
\* 0x110000, and a 3-byte character
CharsBuffers ==
    SeqsUpTo(CharsBytes, MaxCharsLen)
      \cup {<<240, 159, 152, 128>>, <<244, 144, 128, 128>>, <<228, 184, 173>>}

InitChars ==
    /\ input \in CharsBuffers
    /\ Idle

\* the offsets at which a traversal of s from offset 0 in UTF-8 mode decodes
UnitOffsets(s, validate) ==
    LET units == Units(s, 0, TRUE, validate)
    IN  {units[i].start_pos : i \in 1..Len(units)}

\* the six ASCII predicates applied to the unit the traversal decodes at pos
Classify(pos, validate) ==
    /\ call.op = "none"
    /\ pos \in UnitOffsets(input, validate)
    /\ call' = [op |-> "classify", index |-> pos, utf8_mode |-> TRUE, validate |-> validate]
    /\ LET info == extract_char_info(input, pos, TRUE, validate)
       IN  ret' = [outcome |-> "value", info |-> info,
                   digit |-> is_digit_ascii(info), alpha |-> is_alpha_ascii(info),
                   alphanum |-> is_alphanum_ascii(info),
                   lowercase |-> is_lowercase_ascii(info),
                   uppercase |-> is_uppercase_ascii(info),
                   whitespace |-> is_whitespace_ascii(info)]
    /\ UNCHANGED <<input, range, it, scan>>

\* to_lower_ascii_str and to_upper_ascii_str applied to the unit the traversal
\* decodes at pos
ConvertCase(pos, validate) ==
    /\ call.op = "none"
    /\ pos \in UnitOffsets(input, validate)
    /\ call' = [op |-> "convert", index |-> pos, utf8_mode |-> TRUE, validate |-> validate]
    /\ LET info == extract_char_info(input, pos, TRUE, validate)
       IN  ret' = [outcome |-> "value", info |-> info,
                   lower |-> to_lower_ascii_str(info), upper |-> to_upper_ascii_str(info)]
    /\ UNCHANGED <<input, range, it, scan>>

NextChars ==
    \/ \E pos \in 0..Length(input), validate \in BOOLEAN : Classify(pos, validate)
    \/ \E pos \in 0..Length(input), validate \in BOOLEAN : ConvertCase(pos, validate)

SpecChars == InitChars /\ [][NextChars]_vars

\* the bytes the unit was decoded from
OriginalBytes(info) == Substr(input, info.start_pos, info.byte_count)

\* a byte with A-Z mapped to a-z, and with a-z mapped to A-Z
LowerByte(b) == IF b \in 65..90 THEN b + 32 ELSE b
UpperByte(b) == IF b \in 97..122 THEN b - 32 ELSE b

\* C17 as stated: to_lower_ascii_str and to_upper_ascii_str of a decoded unit
\* are, for an ASCII unit, its byte with only A-Z (resp. a-z) case-mapped, and
\* for a non-ASCII unit exactly the bytes the unit was decoded from.
C17_Original ==
    call.op = "convert" =>
        IF ret.info.is_ascii
        THEN /\ ret.lower = <<LowerByte(ByteAt(input, ret.info.start_pos))>>
             /\ ret.upper = <<UpperByte(ByteAt(input, ret.info.start_pos))>>
        ELSE /\ ret.lower = OriginalBytes(ret.info)
             /\ ret.upper = OriginalBytes(ret.info)

\* C18 as stated: an ASCII predicate is true only for a unit with
\* is_ascii == true and byte_count == 1.
C18_Original ==
    (/\ call.op = "classify"
     /\ \/ ret.digit \/ ret.alpha \/ ret.alphanum
        \/ ret.lowercase \/ ret.uppercase \/ ret.whitespace) =>
        ret.info.is_ascii /\ ret.info.byte_count = 1

(***************************************************************************)
(* Claims on the BOM actions of scan_string and on scan_ascii.             *)
(***************************************************************************)
\* the BOM handler is only ever invoked on entry, before the first character
C21_HandlerFirst ==
    scan.state # "Idle" =>
        /\ scan'.bom_handler_calls = scan.bom_handler_calls
        /\ scan'.bom_handler_arg = scan.bom_handler_arg

\* what C21 says of a scan_string in progress or finished
C21_BomRouted ==
    scan.fn = "scan_string" =>
        IF HasBOM(input)
        THEN /\ scan.bom_action = "COPY" =>
                    /\ IsPrefix(<<239, 187, 191>>, scan.result)
                    /\ scan.bom_handler_calls = 0
             /\ (scan.bom_action = "CUSTOM" /\ scan.bom_handler) =>
                    /\ scan.bom_handler_calls = 1
                    /\ scan.bom_handler_arg.found /\ scan.bom_handler_arg.size = 3
                    /\ IsPrefix(BomHandlerResult, scan.result)
             /\ scan.bom_action = "IGNORE" =>
                    /\ scan.bom_handler_calls = 0
                    /\ scan.result = Contributions(input, scan.processor, scan.calls,
                           IF scan.state = "Stopped" THEN Len(scan.calls) - 1
                           ELSE Len(scan.calls))
             /\ \A i \in 1..Len(scan.calls) : scan.calls[i].start_pos >= 3
             /\ Len(scan.calls) >= 1 => scan.calls[1].start_pos = 3
             /\ scan.pos >= 3
        ELSE scan.bom_handler_calls = 0

\* C21: scan_string on a buffer with a leading BOM: COPY puts the 3 BOM bytes
\* first in the output; CUSTOM with a handler invokes the handler exactly once,
\* before any character callback, with found == true and size == 3, and puts
\* its return value first in the output; IGNORE never invokes the handler and
\* outputs no BOM byte; in every case the first character presented starts at
\* offset 3.  Without a BOM the handler is never invoked.
C21_BomActions ==
    /\ [][C21_HandlerFirst]_vars
    /\ []C21_BomRouted

\* BOM + 'A' under CUSTOM with a handler and an always-Copy callback has
\* returned "[BOM]A" after one handler call
C21_Witness ==
    /\ scan.fn = "scan_string" /\ scan.state = "Done"
    /\ scan.bom_action = "CUSTOM" /\ scan.bom_handler
    /\ input = <<239, 187, 191, 65>>
    /\ scan.bom_handler_calls = 1
    /\ Len(scan.calls) = 1 /\ scan.calls[1].start_pos = 3
    /\ scan.result = <<91, 66, 79, 77, 93, 65>>

\* C22: scan_ascii presents every byte as its own character and detects no
\* BOM: the i-th character presented starts at offset i - 1 (from offset 0, a
\* leading BOM included) with byte_count == 1, is_ascii, is_valid_utf8 and not
\* is_bom; a finished scan without Stop has presented one character per byte,
\* and an always-Copy scan returns the whole input.
C22_AsciiPerByte ==
    scan.fn = "scan_ascii" =>
        /\ \A i \in 1..Len(scan.calls) :
               /\ scan.calls[i].start_pos = i - 1
               /\ scan.calls[i].byte_count = 1
               /\ scan.calls[i].is_ascii /\ scan.calls[i].is_valid_utf8
               /\ ~scan.calls[i].is_bom
        /\ (scan.state = "Done" /\ NeverStops(scan.processor)) =>
               Len(scan.calls) = Len(input)
        /\ (scan.state = "Done" /\ scan.processor = CopyAll) => scan.result = input

\* an always-Copy scan_ascii of BOM + 'A' has presented 4 characters and
\* returned the 4 bytes
C22_Witness ==
    /\ scan.fn = "scan_ascii" /\ scan.state = "Done" /\ scan.processor = CopyAll
    /\ input = <<239, 187, 191, 65>>
    /\ Len(scan.calls) = 4 /\ scan.calls[1].start_pos = 0
    /\ scan.result = input

\* C30 as stated: on a buffer without a leading BOM every character scan_ascii
\* presents is the unit scan_string presents at that offset with
\* utf8_mode == false, and its codepoint is the byte's value in 0..255.
C30_Original ==
    (scan.fn = "scan_ascii" /\ ~HasBOM(input)) =>
        \A i \in 1..Len(scan.calls) :
            LET u == scan.calls[i]
                v == extract_char_info(input, u.start_pos, FALSE, TRUE)
            IN  /\ u.start_pos = v.start_pos /\ u.byte_count = v.byte_count
                /\ u.codepoint = v.codepoint
                /\ u.is_ascii = v.is_ascii /\ u.is_valid_utf8 = v.is_valid_utf8
                /\ u.codepoint \in 0..255
                /\ u.codepoint = ByteAt(input, u.start_pos)

(***************************************************************************)
(* SpecRange: the two constructors of CharRange, called within the buffer. *)
(***************************************************************************)
InitRange ==
    /\ input \in IterBuffers
    /\ Idle

\* CharRange(input, utf8_mode, validate, skip_bom)
ConstructWhole(utf8_mode, validate, skip_bom) ==
    /\ call.op = "none"
    /\ range' = CharRange(input, utf8_mode, validate, skip_bom)
    /\ call' = [op |-> "CharRange", index |-> 0, utf8_mode |-> utf8_mode,
                validate |-> validate, skip_bom |-> skip_bom,
                start |-> 0, end |-> Length(input)]
    /\ UNCHANGED <<input, it, ret, scan>>

\* CharRange(input, start, end, utf8_mode, validate, skip_bom)
ConstructBounds(start, end, utf8_mode, validate, skip_bom) ==
    /\ call.op = "none"
    /\ range' = CharRangeBounds(input, start, end, utf8_mode, validate, skip_bom)
    /\ call' = [op |-> "CharRangeBounds", index |-> 0, utf8_mode |-> utf8_mode,
                validate |-> validate, skip_bom |-> skip_bom,
                start |-> start, end |-> end]
    /\ UNCHANGED <<input, it, ret, scan>>

NextRange ==
    \/ \E utf8_mode \in BOOLEAN, validate \in BOOLEAN, skip_bom \in BOOLEAN :
           ConstructWhole(utf8_mode, validate, skip_bom)
    \/ \E end \in 0..Length(input) : \E start \in 0..end :
       \E utf8_mode \in BOOLEAN, validate \in BOOLEAN, skip_bom \in BOOLEAN :
           ConstructBounds(start, end, utf8_mode, validate, skip_bom)

SpecRange == InitRange /\ [][NextRange]_vars

\* C23 as stated: a range made by the whole-buffer constructor, or by the
\* explicit-bounds constructor with start <= end <= buffer length, has
\* start_byte <= end_byte <= buffer_length, with any skip_bom and content.
C23_Original ==
    call.op \in {"CharRange", "CharRangeBounds"} =>
        /\ range.start_pos <= range.end_pos
        /\ range.end_pos <= Length(input)

\* C28 as stated: on a range made with bounds start <= end <= buffer length
\* the traversal from begin() by ++ meets end(): the iterator never passes
\* end(), nothing is decoded at a position >= end, and size() returns.
C28_Original ==
    (call.op \in IterOps /\ call.start <= call.end) =>
        /\ it.pos <= range.end_pos
        /\ call.op = "deref" => ret.info.start_pos < range.end_pos
        /\ call.op = "size" => ret.outcome = "value"

(***************************************************************************)
(* SpecDecode: extract_char_info at every offset of short buffers over the *)
(* boundary bytes and of a few longer sequences.                           *)
(***************************************************************************)
\* U+4E16, U+20AC, U+1F30D, 'H'; the encodings of 0xD800, of 0x110000 and of
\* 0x1FFFFF; an overlong 'A'; a 4-byte lead with a bad last byte
DecodeExamples ==
    {<<228, 184, 150>>, <<226, 130, 172>>, <<240, 159, 140, 141>>, <<72>>,
     <<237, 160, 128>>, <<244, 144, 128, 128>>, <<247, 191, 191, 191>>,
     <<193, 129>>, <<240, 159, 140, 65>>}

InitDecode ==
    /\ input \in SeqsUpTo(DecodeBytes, MaxDecodeLen) \cup DecodeExamples
    /\ Idle

NextDecode ==
    \E pos \in 0..(Length(input) + 1), utf8_mode \in BOOLEAN, validate \in BOOLEAN :
        ExtractCharInfo(pos, utf8_mode, validate)

SpecDecode == InitDecode /\ [][NextDecode]_vars

(***************************************************************************)
(* Claims on the decoder.                                                  *)
(***************************************************************************)
\* the bits of an n-byte sequence at pos packed as UTF-8 prescribes
RefCodepoint(s, pos, n) ==
    LET b == ByteAt(s, pos)
        c(j) == ByteAt(s, pos + j) % 64
    IN  CASE n = 2 -> ((b % 32) * 64) + c(1)
          [] n = 3 -> ((b % 16) * 4096) + (c(1) * 64) + c(2)
          [] n = 4 -> ((b % 8) * 262144) + (c(1) * 4096) + (c(2) * 64) + c(3)
          [] OTHER -> b

\* extract_char_info was called in UTF-8 mode at an offset inside the buffer
DecodedUtf8 ==
    call.op = "extract_char_info" /\ call.utf8_mode /\ call.index < Length(input)

\* C24: in UTF-8 mode a byte b >= 0x80 declares 2, 3 or 4 bytes by its form
\* 110xxxxx, 1110xxxx, 11110xxx and any other form gives an invalid 1-byte
\* unit with codepoint b; a sequence that passes the checks has the declared
\* byte_count and the codepoint made of the low 7 - n bits of b followed by
\* the low 6 bits of each continuation byte, below 2^21; E4 B8 96 gives
\* 0x4E16, E2 82 AC 0x20AC, F0 9F 8C 8D 0x1F30D and 'H' 0x48.
C24_BitPacking ==
    DecodedUtf8 =>
        LET b == ByteAt(input, call.index)
            n == Announced(b)
            u == ret.info
        IN  /\ b < 128 => (u.byte_count = 1 /\ u.is_ascii /\ u.codepoint = b)
            /\ (b >= 128 /\ n = 0) =>
                   (~u.is_valid_utf8 /\ u.byte_count = 1 /\ u.codepoint = b)
            /\ (b >= 128 /\ n > 0 /\ u.is_valid_utf8) =>
                   /\ u.byte_count = n
                   /\ u.codepoint = RefCodepoint(input, call.index, n)
                   /\ u.codepoint < 2097152
            /\ (b >= 128 /\ ~u.is_valid_utf8) => (u.byte_count = 1 /\ u.codepoint = b)
            /\ (input = <<228, 184, 150>> /\ call.index = 0) =>
                   (u.codepoint = 19990 /\ u.byte_count = 3)
            /\ (input = <<226, 130, 172>> /\ call.index = 0) =>
                   (u.codepoint = 8364 /\ u.byte_count = 3)
            /\ (input = <<240, 159, 140, 141>> /\ call.index = 0) =>
                   (u.codepoint = 127757 /\ u.byte_count = 4)
            /\ (input = <<72>> /\ call.index = 0) =>
                   (u.codepoint = 72 /\ u.byte_count = 1 /\ u.is_ascii)

\* F0 9F 8C 8D validated at offset 0: 4 bytes, 0x1F30D
C24_Witness ==
    /\ DecodedUtf8 /\ call.validate /\ call.index = 0
    /\ input = <<240, 159, 140, 141>>
    /\ ret.info.is_valid_utf8 /\ ret.info.byte_count = 4
    /\ ret.info.codepoint = 127757

C26_Original ==
    (DecodedUtf8 /\ call.validate /\ ret.info.is_valid_utf8) =>
        /\ ret.info.codepoint \in 0..1114111
        /\ ret.info.codepoint \notin 55296..57343

\* every lead byte of s is followed, within s, by its full number of
\* 10xxxxxx continuation bytes
LeadsComplete(s) ==
    \A pos \in 0..(Length(s) - 1) :
        LET n == Announced(ByteAt(s, pos))
        IN  n > 0 =>
                /\ pos + n <= Length(s)
                /\ \A j \in 1..(n - 1) : ByteAt(s, pos + j) \in 128..191

\* C27: on a buffer whose lead bytes all have their full number of 10xxxxxx
\* continuation bytes, decoding in UTF-8 mode with validation off gives at
\* every offset inside the buffer, the character boundaries among them, the
\* unit that decoding with validation on gives, and length() is the same
\* with validation off and on.
C27_OptimisticAgrees ==
    (DecodedUtf8 /\ ~call.validate /\ LeadsComplete(input)) =>
        LET v == extract_char_info(input, call.index, TRUE, TRUE)
        IN  /\ ret.info.byte_count = v.byte_count
            /\ ret.info.codepoint = v.codepoint
            /\ ret.info.is_ascii = v.is_ascii
            /\ ret.info.is_valid_utf8 = v.is_valid_utf8
            /\ ret.info = v
            /\ length(input, TRUE, FALSE) = length(input, TRUE, TRUE)

\* F0 9F 8C 8D decoded without validation at offset 0: 4 bytes, 0x1F30D
C27_Witness ==
    /\ DecodedUtf8 /\ ~call.validate /\ call.index = 0
    /\ input = <<240, 159, 140, 141>> /\ LeadsComplete(input)
    /\ ret.info.is_valid_utf8 /\ ret.info.byte_count = 4
    /\ ret.info.codepoint = 127757
    /\ length(input, TRUE, FALSE).count = 1

(***************************************************************************)
(* SpecCopy: the copy family, one call per run.                            *)
(***************************************************************************)
\* a predicate on units decides on the class of the unit: ASCII, valid
\* multi-byte, or invalid
UnitClass(info) ==
    IF info.is_ascii THEN "ascii" ELSE IF info.is_valid_utf8 THEN "multi" ELSE "invalid"
Predicates == [{"ascii", "multi", "invalid"} -> BOOLEAN]
Holds(pred, info) == pred[UnitClass(info)]
Negation(pred) == [c \in DOMAIN pred |-> ~pred[c]]

\* make_char_range(input): the whole buffer, UTF-8 mode, validating, BOM skipped
CopyRange(s) == CharRange(s, TRUE, TRUE, TRUE)

\* input.substr(char_info.start_pos, char_info.byte_count) appended to out
AppendChar(out, s, char_info) == out \o Substr(s, char_info.start_pos, char_info.byte_count)

\* for (; iter != end_it; ++iter) append *iter
RECURSIVE CopyLoop(_, _, _, _)
CopyLoop(s, iter, end_it, out) ==
    IF IterEq(iter, end_it) \/ iter.pos > end_it.pos THEN out
    ELSE LET d == IterDeref(s, iter)
         IN  CopyLoop(s, IterIncr(s, d), end_it, AppendChar(out, s, d.current_char))

\* copy(input, result)
copy(s) == CopyLoop(s, RangeBegin(CopyRange(s)), RangeEnd(CopyRange(s)), <<>>)

\* the loop of copy_until with the break after the append
RECURSIVE CopyUntilLoop_Inclusive(_, _, _, _, _)
CopyUntilLoop_Inclusive(s, iter, end_it, pred, out) ==
    IF IterEq(iter, end_it) \/ iter.pos > end_it.pos THEN out
    ELSE LET d == IterDeref(s, iter)
         IN  IF Holds(pred, d.current_char) THEN AppendChar(out, s, d.current_char)
             ELSE CopyUntilLoop_Inclusive(s, IterIncr(s, d), end_it, pred,
                                          AppendChar(out, s, d.current_char))

\* the loop of copy_until: break at the first unit the predicate holds for
RECURSIVE CopyUntilLoop(_, _, _, _, _)
CopyUntilLoop(s, iter, end_it, pred, out) ==
    IF IterEq(iter, end_it) \/ iter.pos > end_it.pos THEN out
    ELSE LET d == IterDeref(s, iter)
         IN  IF Holds(pred, d.current_char) THEN out
             ELSE CopyUntilLoop(s, IterIncr(s, d), end_it, pred,
                                AppendChar(out, s, d.current_char))

\* copy_until(input, result, pred)
copy_until(s, pred) ==
    CopyUntilLoop(s, RangeBegin(CopyRange(s)), RangeEnd(CopyRange(s)), pred, <<>>)

\* std::find_if(first, last, pred)
RECURSIVE FindIf(_, _, _, _)
FindIf(s, iter, end_it, pred) ==
    IF IterEq(iter, end_it) \/ iter.pos > end_it.pos THEN iter
    ELSE LET d == IterDeref(s, iter)
         IN  IF Holds(pred, d.current_char) THEN d
             ELSE FindIf(s, IterIncr(s, d), end_it, pred)

\* copy_from(input, result, pred)
copy_from(s, pred) ==
    LET start_it == FindIf(s, RangeBegin(CopyRange(s)), RangeEnd(CopyRange(s)), pred)
    IN  CopyLoop(s, start_it, RangeEnd(CopyRange(s)), <<>>)

\* for (i = 0; i < n && it != range.end(); ++i, ++it) append *it
RECURSIVE CopyNLoop(_, _, _, _, _, _)
CopyNLoop(s, iter, end_it, i, n, out) ==
    IF ~(i < n) \/ IterEq(iter, end_it) \/ iter.pos > end_it.pos THEN out
    ELSE LET d == IterDeref(s, iter)
         IN  CopyNLoop(s, IterIncr(s, d), end_it, i + 1, n,
                       AppendChar(out, s, d.current_char))

\* copy_n(input, result, n)
copy_n(s, n) == CopyNLoop(s, RangeBegin(CopyRange(s)), RangeEnd(CopyRange(s)), 0, n, <<>>)

\* the loop of copy_while: break at the first unit the predicate fails for
RECURSIVE CopyWhileLoop(_, _, _, _, _)
CopyWhileLoop(s, iter, end_it, pred, out) ==
    IF IterEq(iter, end_it) \/ iter.pos > end_it.pos THEN out
    ELSE LET d == IterDeref(s, iter)
         IN  IF ~Holds(pred, d.current_char) THEN out
             ELSE CopyWhileLoop(s, IterIncr(s, d), end_it, pred,
                                AppendChar(out, s, d.current_char))

\* copy_while(input, result, pred)
copy_while(s, pred) ==
    CopyWhileLoop(s, RangeBegin(CopyRange(s)), RangeEnd(CopyRange(s)), pred, <<>>)

InitCopy ==
    /\ input \in ScanBuffers
    /\ Idle

\* a call of one function of the family: what it wrote to the output iterator
Copied(op, pred, n, out) ==
    /\ call.op = "none"
    /\ call' = [op |-> op, index |-> n, utf8_mode |-> TRUE, validate |-> TRUE, pred |-> pred]
    /\ ret' = [outcome |-> "value", out |-> out]
    /\ UNCHANGED <<input, range, it, scan>>

NoPredicate == [c \in {"ascii", "multi", "invalid"} |-> FALSE]

CallCopy == Copied("copy", NoPredicate, 0, copy(input))
CallCopyUntil(pred) == Copied("copy_until", pred, 0, copy_until(input, pred))
CallCopyFrom(pred) == Copied("copy_from", pred, 0, copy_from(input, pred))
CallCopyN(n) == Copied("copy_n", NoPredicate, n, copy_n(input, n))
CallCopyWhile(pred) == Copied("copy_while", pred, 0, copy_while(input, pred))

NextCopy ==
    \/ CallCopy
    \/ \E pred \in Predicates : CallCopyUntil(pred)
    \/ \E pred \in Predicates : CallCopyFrom(pred)
    \/ \E n \in 0..MaxCopyN : CallCopyN(n)
    \/ \E pred \in Predicates : CallCopyWhile(pred)

SpecCopy == InitCopy /\ [][NextCopy]_vars

\* the bytes of the first n units of a sequence of units of s
RECURSIVE BytesOf(_, _, _)
BytesOf(s, units, n) ==
    IF n = 0 THEN <<>>
    ELSE BytesOf(s, units, n - 1) \o Substr(s, units[n].start_pos, units[n].byte_count)

Min(a, b) == IF a <= b THEN a ELSE b

\* C29: copy_until(p) followed by copy_from(p) is copy; copy_while(p) is
\* copy_until(not p); copy_n(n) is the first min(n, length) characters of copy;
\* copy is the input without its leading BOM.
C29_CopyPartition ==
    LET units == AdjustedUnits(input, TRUE, TRUE)
        whole == IF HasBOM(input) THEN SubSeq(input, 4, Len(input)) ELSE input
    IN  /\ call.op = "copy" => ret.out = whole
        /\ call.op = "copy_until" =>
               /\ ret.out \o copy_from(input, call.pred) = copy(input)
               /\ ret.out \o copy_from(input, call.pred) = whole
               /\ IsPrefix(ret.out, whole)
        /\ call.op = "copy_from" =>
               copy_until(input, call.pred) \o ret.out = whole
        /\ call.op = "copy_while" =>
               /\ ret.out = copy_until(input, Negation(call.pred))
               /\ IsPrefix(ret.out, whole)
        /\ call.op = "copy_n" =>
               /\ ret.out = BytesOf(input, units, Min(call.index, Len(units)))
               /\ IsPrefix(ret.out, copy(input))
               /\ length(input, TRUE, TRUE).count = Len(units)

\* BOM + 'A' 0xC3 0xFF: copy_until(invalid) has written 'A', and
\* copy_from(invalid) writes the rest, 0xC3 0xFF
C29_Witness ==
    /\ call.op = "copy_until"
    /\ call.pred = [ascii |-> FALSE, multi |-> FALSE, invalid |-> TRUE]
    /\ input = <<239, 187, 191, 65, 195, 255>>
    /\ ret.out = <<65>>
    /\ copy_from(input, call.pred) = <<195, 255>>

====
